---- MODULE Spec2Model ----
(***************************************************************************)
(* Model of the Obsidian "Focus header" plugin (src/main.ts).              *)
(*                                                                         *)
(* The plugin registers three editor commands.  Each one re-reads the      *)
(* document and the cursor, rebuilds the header tree, picks a focus        *)
(* header, computes the set of header lines to unfold, dispatches one      *)
(* batch of fold/unfold effects and scrolls; the two sibling commands also *)
(* move the cursor.  Every command runs to completion in one step.         *)
(***************************************************************************)
EXTENDS Integers, Sequences, FiniteSets

\* Bounds of the model.
MaxLines == 3      \* longest document, in lines
MaxLevel == 3      \* deepest header (number of leading '#')

VARIABLES
    lines,        \* editor.getValue().split("\n"): the document, line by line
    cursor,       \* editor.getCursor(): [line, ch], zero-based
    foldableAt,   \* the header lines at which foldable(state, from) reports a range
    folded,       \* the ranges (named by their header line) the view holds folded
    scrollTop,    \* cm.scrollDOM.scrollTop
    out           \* what the last command did (its locals and its calls)

vars == <<lines, cursor, foldableAt, folded, scrollTop, out>>

----------------------------------------------------------------------------
\* The text of a line, as far as /^(#+)\s/ reads it: the number of '#' the
\* line starts with and whether a whitespace character follows them.
LineKinds ==
    {[hashes |-> h, space |-> TRUE] : h \in 0..MaxLevel}
        \cup {[hashes |-> 1, space |-> FALSE]}

\* lines[i].match(/^(#+)\s/): one or more '#' at the line start, then whitespace.
Match(text) == text.hashes >= 1 /\ text.space

\* match[1].length
LevelOf(text) == text.hashes

\* "undefined" for a HeaderNode reference; headers are numbered from 1 in
\* the order they are pushed, so a reference is an index into the array.
NoHeader == 0

\* let lastByLevel: { [level: number]: HeaderNode } = {}
EmptyLastByLevel == [l \in 1..MaxLevel + 1 |-> NoHeader]

\* for (let l = level - 1; l >= 1; l--) if (lastByLevel[l]) { node.parent = lastByLevel[l]; break; }
RECURSIVE FindParent(_, _)
FindParent(lastByLevel, l) ==
    IF l < 1 THEN NoHeader
    ELSE IF lastByLevel[l] # NoHeader THEN lastByLevel[l]
    ELSE FindParent(lastByLevel, l - 1)

\* The loop that builds the header tree, from line index i (one-based here,
\* zero-based in the node) with the headers and lastByLevel built so far.
RECURSIVE BuildHeaders(_, _, _, _)
BuildHeaders(ls, i, headers, lastByLevel) ==
    IF i > Len(ls) THEN headers
    ELSE IF Match(ls[i])
         THEN LET level == LevelOf(ls[i])
                  node  == [line   |-> i - 1,
                            level  |-> level,
                            parent |-> FindParent(lastByLevel, level - 1)]
                  hs    == Append(headers, node)
              IN  BuildHeaders(ls, i + 1, hs, [lastByLevel EXCEPT ![level] = Len(hs)])
         ELSE BuildHeaders(ls, i + 1, headers, lastByLevel)

\* Step 1 of each command: the header array of a document.
Headers(ls) == BuildHeaders(ls, 1, <<>>, EmptyLastByLevel)

\* for (let i = headers.length - 1; i >= 0; i--) if (headers[i].line <= cursorLine) { ...; break; }
RECURSIVE ScanCurrent(_, _, _)
ScanCurrent(headers, i, cursorLine) ==
    IF i < 1 THEN NoHeader
    ELSE IF headers[i].line <= cursorLine THEN i
    ELSE ScanCurrent(headers, i - 1, cursorLine)

\* Variant: currentHeaderIndex starts at the first header instead of -1.
CurrentHeaderIndexFromFirst(headers, cursorLine) ==
    LET i == ScanCurrent(headers, Len(headers), cursorLine)
    IN  IF i = NoHeader /\ Len(headers) > 0 THEN 1 ELSE i

\* Variant: the scan runs from the first header down the document.
CurrentHeaderIndexForward(headers, cursorLine) ==
    LET S == {k \in 1..Len(headers) : headers[k].line <= cursorLine}
    IN  IF S = {} THEN NoHeader ELSE CHOOSE k \in S : \A j \in S : k <= j

\* Step 2: the current header (NoHeader: the command returns).
CurrentHeaderIndex(headers, cursorLine) == ScanCurrent(headers, Len(headers), cursorLine)

\* Variant: any header that is not deeper is taken for the sibling.
RECURSIVE ScanNextNotDeeper(_, _, _)
ScanNextNotDeeper(headers, cur, i) ==
    IF i > Len(headers) THEN NoHeader
    ELSE IF headers[i].level <= headers[cur].level THEN i
    ELSE ScanNextNotDeeper(headers, cur, i + 1)

\* for (let i = currentHeaderIndex + 1; i < headers.length; i++) { sibling?; <= level? break }
RECURSIVE ScanNext(_, _, _)
ScanNext(headers, cur, i) ==
    IF i > Len(headers) THEN NoHeader
    ELSE IF headers[i].level = headers[cur].level /\ headers[i].parent = headers[cur].parent
         THEN i
    ELSE IF headers[i].level <= headers[cur].level THEN NoHeader
    ELSE ScanNext(headers, cur, i + 1)

NextSibling(headers, cur) == ScanNext(headers, cur, cur + 1)

\* Variant: the scan stops at the first header that is not the sibling.
ScanPrevAdjacent(headers, cur, i) ==
    IF i < 1 THEN NoHeader
    ELSE IF headers[i].level = headers[cur].level /\ headers[i].parent = headers[cur].parent
         THEN i
    ELSE NoHeader

\* for (let i = currentHeaderIndex - 1; i >= 0; i--) { sibling?; <= level? break }
RECURSIVE ScanPrev(_, _, _)
ScanPrev(headers, cur, i) ==
    IF i < 1 THEN NoHeader
    ELSE IF headers[i].level = headers[cur].level /\ headers[i].parent = headers[cur].parent
         THEN i
    ELSE IF headers[i].level <= headers[cur].level THEN NoHeader
    ELSE ScanPrev(headers, cur, i - 1)

PrevSibling(headers, cur) == ScanPrev(headers, cur, cur - 1)

\* while (ancestor) { unfoldLines.add(ancestor.line); ancestor = ancestor.parent; }
RECURSIVE CollectAncestors(_, _)
CollectAncestors(headers, ancestor) ==
    IF ancestor = NoHeader THEN {}
    ELSE {headers[ancestor].line} \cup CollectAncestors(headers, headers[ancestor].parent)

\* Variant: the children are added without recursing into them.
CollectChildren(headers, node) ==
    {headers[node].line}
        \cup {headers[c].line : c \in {c \in 1..Len(headers) : headers[c].parent = node}}

\* collectDescendants(node): the node's line, then the same for every header
\* whose parent is the node.
RECURSIVE CollectDescendants(_, _)
CollectDescendants(headers, node) ==
    {headers[node].line}
        \cup UNION {CollectDescendants(headers, child) :
                        child \in {c \in 1..Len(headers) : headers[c].parent = node}}

\* Step 3: unfoldLines for a focus header.
UnfoldLines(headers, focus) ==
    CollectAncestors(headers, focus) \cup CollectDescendants(headers, focus)

\* foldable(state, state.doc.line(header.line + 1).from): a range or null.
\* The range is the editor's; the model names it by the line it starts at.
Foldable(fa, line) == line \in fa

\* Step 4: the effects array, from header i on.
RECURSIVE BuildEffects(_, _, _, _)
BuildEffects(headers, fa, unfoldLines, i) ==
    IF i > Len(headers) THEN <<>>
    ELSE IF ~Foldable(fa, headers[i].line)
         THEN BuildEffects(headers, fa, unfoldLines, i + 1)
    ELSE <<[kind  |-> IF headers[i].line \in unfoldLines THEN "unfold" ELSE "fold",
            range |-> headers[i].line]>>
            \o BuildEffects(headers, fa, unfoldLines, i + 1)

\* Variant: a header without a range ends the loop (break for continue).
RECURSIVE BuildEffectsUntilNoRange(_, _, _, _)
BuildEffectsUntilNoRange(headers, fa, unfoldLines, i) ==
    IF i > Len(headers) \/ ~Foldable(fa, headers[i].line) THEN <<>>
    ELSE <<[kind  |-> IF headers[i].line \in unfoldLines THEN "unfold" ELSE "fold",
            range |-> headers[i].line]>>
            \o BuildEffectsUntilNoRange(headers, fa, unfoldLines, i + 1)

EffectsUntilNoRange(headers, fa, unfoldLines) ==
    BuildEffectsUntilNoRange(headers, fa, unfoldLines, 1)

Effects(headers, fa, unfoldLines) == BuildEffects(headers, fa, unfoldLines, 1)

\* cm.dispatch({ effects }): a fold effect adds its range to the folded
\* ranges, an unfold effect removes it.
Dispatch(fs, effects) ==
    (fs \ {effects[k].range : k \in {j \in DOMAIN effects : effects[j].kind = "unfold"}})
        \cup {effects[k].range : k \in {j \in DOMAIN effects : effects[j].kind = "fold"}}

\* cm.coordsAtPos(pos)?.top ?? 0: the top of the line, or 0 when the view
\* has no coordinates for the position.
ScrollTargets(line) == {0, line + 1}

\* Variant: the column is carried over.
SetCursorKeepCh(line) == [line |-> line, ch |-> 1]

\* editor.setCursor({ line: sibling.line, ch: 0 })
SetCursor(line) == [line |-> line, ch |-> 0]

----------------------------------------------------------------------------
\* The record of a command that returned early.
Returned(cmd, headers, cur) ==
    [cmd |-> cmd, took |-> FALSE, headers |-> headers, cursor |-> cursor,
     current |-> cur, focus |-> NoHeader, unfoldLines |-> {}, dispatched |-> FALSE,
     effects |-> <<>>, scrolled |-> FALSE]

\* The record of a command that ran to its end.
Ran(cmd, headers, cur, focus, unfoldLines, effects) ==
    [cmd |-> cmd, took |-> TRUE, headers |-> headers, cursor |-> cursor,
     current |-> cur, focus |-> focus, unfoldLines |-> unfoldLines, dispatched |-> TRUE,
     effects |-> effects, scrolled |-> TRUE]

\* Steps 3 and 4, the dispatch and the scroll, shared by the three commands.
FocusOn(cmd, headers, cur, focus) ==
    LET unfoldLines == UnfoldLines(headers, focus)
        effects     == Effects(headers, foldableAt, unfoldLines)
    IN  /\ folded' = Dispatch(folded, effects)
        /\ scrollTop' \in ScrollTargets(headers[focus].line)
        /\ out' = Ran(cmd, headers, cur, focus, unfoldLines, effects)

Init ==
    /\ lines \in UNION {[1..n -> LineKinds] : n \in 1..MaxLines}
    /\ cursor \in [line : 0..Len(lines) - 1, ch : {1}]
    /\ foldableAt \in SUBSET {i - 1 : i \in {j \in 1..Len(lines) : Match(lines[j])}}
    /\ folded = {}
    /\ scrollTop = 0
    /\ out = [cmd |-> "none", took |-> FALSE, headers |-> <<>>, cursor |-> cursor,
              current |-> NoHeader, focus |-> NoHeader, unfoldLines |-> {},
              dispatched |-> FALSE, effects |-> <<>>, scrolled |-> FALSE]

FocusOnCurrentHeader ==
    LET headers == Headers(lines)
        cur     == CurrentHeaderIndex(headers, cursor.line)
    IN  IF cur = NoHeader
        THEN /\ out' = Returned("current", headers, cur)
             /\ UNCHANGED <<lines, cursor, foldableAt, folded, scrollTop>>
        ELSE /\ FocusOn("current", headers, cur, cur)
             /\ UNCHANGED <<lines, cursor, foldableAt>>

FocusOnNextSibling ==
    LET headers == Headers(lines)
        cur     == CurrentHeaderIndex(headers, cursor.line)
        sib     == IF cur = NoHeader THEN NoHeader ELSE NextSibling(headers, cur)
    IN  IF sib = NoHeader
        THEN /\ out' = Returned("next", headers, cur)
             /\ UNCHANGED <<lines, cursor, foldableAt, folded, scrollTop>>
        ELSE /\ FocusOn("next", headers, cur, sib)
             /\ cursor' = SetCursor(headers[sib].line)
             /\ UNCHANGED <<lines, foldableAt>>

FocusOnPreviousSibling ==
    LET headers == Headers(lines)
        cur     == CurrentHeaderIndex(headers, cursor.line)
        sib     == IF cur = NoHeader THEN NoHeader ELSE PrevSibling(headers, cur)
    IN  IF sib = NoHeader
        THEN /\ out' = Returned("previous", headers, cur)
             /\ UNCHANGED <<lines, cursor, foldableAt, folded, scrollTop>>
        ELSE /\ FocusOn("previous", headers, cur, sib)
             /\ cursor' = SetCursor(headers[sib].line)
             /\ UNCHANGED <<lines, foldableAt>>

Next ==
    \/ FocusOnCurrentHeader
    \/ FocusOnNextSibling
    \/ FocusOnPreviousSibling

Spec == Init /\ [][Next]_vars

----------------------------------------------------------------------------
\* Vocabulary of the properties, stated on the tree a command built.

\* The closest header before k whose level is strictly smaller than k's.
ClosestSmaller(H, k) ==
    LET S == {j \in 1..k - 1 : H[j].level < H[k].level}
    IN  IF S = {} THEN NoHeader ELSE CHOOSE j \in S : \A i \in S : i <= j

\* The header n parent links above k (NoHeader once the chain has ended).
RECURSIVE ParentPow(_, _, _)
ParentPow(H, k, n) ==
    IF n = 0 \/ k = NoHeader THEN k ELSE ParentPow(H, H[k].parent, n - 1)

\* a is reached from k by following one or more parent links.
IsAncestor(H, a, k) == \E n \in 1..Len(H) : ParentPow(H, k, n) = a

\* H[h] encloses H[f]: it precedes it and no header after it, up to and
\* including H[f], has a level less than or equal to its own.
Encloses(H, h, f) == h < f /\ \A j \in h + 1..f : H[j].level > H[h].level

\* The header at line n is followed by at least one line in its section.
HasBody(ls, n) ==
    /\ n + 2 <= Len(ls)
    /\ ~(Match(ls[n + 2]) /\ LevelOf(ls[n + 2]) <= LevelOf(ls[n + 1]))

\* The index of the header at a line.
IndexOfLine(H, n) == CHOOSE k \in 1..Len(H) : H[k].line = n

Commands == {"current", "next", "previous"}
SiblingCommands == {"next", "previous"}

\* C1: in the tree every command builds, the parent of each header is the
\* closest preceding header of strictly smaller level, and is absent exactly
\* when no preceding header has a strictly smaller level.
C1_ParentIsClosestSmaller ==
    out.cmd \in Commands =>
        \A k \in 1..Len(out.headers) :
            out.headers[k].parent = ClosestSmaller(out.headers, k)

\* C2: the visible set of a command that took effect is exactly the focus
\* header's line, the lines of the headers reached from it by parent links
\* and the lines of the headers whose parent chain reaches it.
C2_VisibleSetExact ==
    out.took =>
        LET H == out.headers
            f == out.focus
        IN  /\ f = (IF out.cmd = "current" THEN out.current
                    ELSE IF out.cmd = "next" THEN NextSibling(H, out.current)
                    ELSE PrevSibling(H, out.current))
            /\ out.unfoldLines =
                  {H[k].line : k \in {j \in 1..Len(H) :
                                         j = f \/ IsAncestor(H, j, f) \/ IsAncestor(H, f, j)}}

\* The focus header has an ancestor, and a header stays out of the set.
C2_Witness ==
    /\ out.took
    /\ \E a, o \in 1..Len(out.headers) :
          /\ IsAncestor(out.headers, a, out.focus)
          /\ out.headers[o].line \notin out.unfoldLines

\* The focus header has a descendant two levels down.
C2_WitnessDescendants ==
    /\ out.took
    /\ \E d \in 1..Len(out.headers) :
          /\ IsAncestor(out.headers, out.focus, d)
          /\ out.headers[d].parent # out.focus

\* C3: Focus on Current Header never folds a header that encloses the focus
\* header, provided every header followed by a line in its section has a
\* foldable range.
C3_CurrentNeverFoldsEnclosing ==
    (/\ out.cmd = "current"
     /\ out.took
     /\ \A k \in 1..Len(out.headers) :
           HasBody(lines, out.headers[k].line) => Foldable(foldableAt, out.headers[k].line))
    => \A e \in DOMAIN out.effects :
           out.effects[e].kind = "fold" =>
               ~Encloses(out.headers, IndexOfLine(out.headers, out.effects[e].range), out.focus)

\* The first header met from c in the direction of the command whose level
\* is less than or equal to c's (NoHeader when there is none).
FirstNotDeeper(H, c, cmd) ==
    LET S == {j \in 1..Len(H) :
                 /\ H[j].level <= H[c].level
                 /\ IF cmd = "next" THEN j > c ELSE j < c}
    IN  IF S = {} THEN NoHeader
        ELSE IF cmd = "next" THEN CHOOSE j \in S : \A i \in S : j <= i
        ELSE CHOOSE j \in S : \A i \in S : i <= j

IsSibling(H, c, j) == H[j].level = H[c].level /\ H[j].parent = H[c].parent

\* C4: the target of Focus on Next/Previous Header has the level and the
\* parent of the current header and only deeper headers lie between the two;
\* and no target is selected when the first header of level less than or
\* equal to the current level in the scan direction is not such a sibling,
\* or there is none.
C4_SiblingTarget ==
    (out.cmd \in SiblingCommands /\ out.current # NoHeader) =>
        LET H == out.headers
            c == out.current
            t == out.focus
            s == FirstNotDeeper(H, c, out.cmd)
        IN  /\ t # NoHeader =>
                  /\ IF out.cmd = "next" THEN t > c ELSE t < c
                  /\ IsSibling(H, c, t)
                  /\ ClosestSmaller(H, t) = ClosestSmaller(H, c)
                  /\ \A j \in 1..Len(H) :
                        (j > c /\ j < t) \/ (j > t /\ j < c) => H[j].level > H[c].level
            /\ (s = NoHeader \/ ~IsSibling(H, c, s)) => t = NoHeader

C4_Witness ==
    /\ out.cmd \in SiblingCommands
    /\ out.took
    /\ \E j \in 1..Len(out.headers) :
          (j > out.current /\ j < out.focus) \/ (j > out.focus /\ j < out.current)

C4_WitnessNoTarget ==
    /\ out.cmd \in SiblingCommands
    /\ out.current # NoHeader
    /\ ~out.took
    /\ FirstNotDeeper(out.headers, out.current, out.cmd) # NoHeader

\* C6: the batch of a command that took effect holds, for every header with
\* a foldable range, exactly one instruction on that range (an unfold if the
\* header's line is in the visible set, a fold otherwise) and no instruction
\* for a header without one.
C6_BatchExact ==
    out.took =>
        /\ out.dispatched
        /\ \A k \in 1..Len(out.headers) :
              LET n  == out.headers[k].line
                  on == {e \in DOMAIN out.effects : out.effects[e].range = n}
              IN  IF Foldable(foldableAt, n)
                  THEN /\ Cardinality(on) = 1
                       /\ \A e \in on :
                             out.effects[e].kind =
                                 IF n \in out.unfoldLines THEN "unfold" ELSE "fold"
                  ELSE on = {}
        /\ \A e \in DOMAIN out.effects :
              \E k \in 1..Len(out.headers) : out.headers[k].line = out.effects[e].range

\* A header without a range precedes one with a range, and both kinds of
\* instruction are in the batch.
C6_Witness ==
    /\ out.took
    /\ \E k, m \in 1..Len(out.headers) :
          /\ k < m
          /\ ~Foldable(foldableAt, out.headers[k].line)
          /\ Foldable(foldableAt, out.headers[m].line)
    /\ \E e, g \in DOMAIN out.effects :
          out.effects[e].kind = "fold" /\ out.effects[g].kind = "unfold"

\* C7: the current header a command resolves is the header with the
\* greatest line index less than or equal to the cursor line, and none when
\* every header's line index is greater.
C7_CurrentIsLastAtOrBefore ==
    out.cmd \in Commands =>
        LET H == out.headers
            S == {k \in 1..Len(H) : H[k].line <= out.cursor.line}
        IN  IF S = {} THEN out.current = NoHeader
            ELSE /\ out.current \in S
                 /\ \A k \in S : H[k].line <= H[out.current].line

C7_Witness ==
    /\ out.cmd \in Commands
    /\ out.current < Len(out.headers)
    /\ out.current > 1

C7_WitnessNone ==
    out.cmd \in Commands /\ out.current = NoHeader /\ Len(out.headers) > 0

\* C9: the headers whose parent chain reaches a header N form a contiguous
\* run right after N: no header that is not a descendant of N lies between N
\* and a descendant of N.
C9_DescendantsContiguous ==
    out.cmd \in Commands =>
        \A n, d \in 1..Len(out.headers) :
            IsAncestor(out.headers, n, d) =>
                /\ n < d
                /\ \A j \in n + 1..d : IsAncestor(out.headers, n, j)

----------------------------------------------------------------------------
\* Properties of a step.

\* The cursor lies before the first header, or the document has none.
CursorInPreamble ==
    \A i \in 1..Len(lines) : Match(lines[i]) => i - 1 > cursor.line

\* The header containing the cursor has no sibling (a header of its level
\* and parent) on the side the command looks at.
NoSiblingOnSide(cmd) ==
    LET H == Headers(lines)
        S == {k \in 1..Len(H) : H[k].line <= cursor.line}
        c == CHOOSE k \in S : \A i \in S : i <= k
    IN  /\ S # {}
        /\ ~\E j \in 1..Len(H) :
               /\ IF cmd = "next" THEN j > c ELSE j < c
               /\ IsSibling(H, c, j)

\* The step issues no instruction, does not scroll and leaves the cursor and
\* the folded ranges alone.
NoOpStep ==
    /\ ~out'.dispatched
    /\ out'.effects = <<>>
    /\ ~out'.scrolled
    /\ scrollTop' = scrollTop
    /\ cursor' = cursor
    /\ folded' = folded

\* C5: a command run with the cursor before the first header is a no-op, and
\* so is Focus on Next/Previous Header when the current header has no sibling
\* on that side.
C5_NoOps ==
    [][/\ CursorInPreamble => NoOpStep
       /\ \A cmd \in SiblingCommands :
             (out'.cmd = cmd /\ NoSiblingOnSide(cmd)) => NoOpStep]_vars

C5_Witness ==
    /\ out.cmd = "current"
    /\ ~out.took
    /\ Len(out.headers) > 0

C5_WitnessNoSibling ==
    /\ out.cmd \in SiblingCommands
    /\ ~out.took
    /\ out.current # NoHeader
    /\ folded # {}

\* C8: Focus on Current Header never moves the cursor; Focus on Next/Previous
\* Header puts it at column 0 of the sibling's line when it selects one and
\* leaves it alone otherwise; no command changes the document.
C8_Frame ==
    [][/\ lines' = lines
       /\ out'.cmd = "current" => cursor' = cursor
       /\ out'.cmd \in SiblingCommands =>
             IF out'.focus # NoHeader
             THEN cursor' = [line |-> out'.headers[out'.focus].line, ch |-> 0]
             ELSE cursor' = cursor]_vars

C8_Witness ==
    /\ out.cmd \in SiblingCommands
    /\ out.took
    /\ out.cursor.ch # 0
    /\ cursor = [line |-> out.headers[out.focus].line, ch |-> 0]
    /\ out.cursor.line # out.headers[out.current].line

C8_WitnessCurrent ==
    out.cmd = "current" /\ out.took /\ cursor.ch # 0

\* The command that undoes a sibling command.
Opposite(cmd) == IF cmd = "next" THEN "previous" ELSE "next"

\* C10: Focus on Next Header that selected a sibling, followed by Focus on
\* Previous Header, leaves the cursor at column 0 of the original current
\* header's line with the visible set Focus on Current Header computes for
\* that header; and the same with the two commands exchanged.
C10_RoundTrip ==
    [][(/\ out.cmd \in SiblingCommands
        /\ out.took
        /\ out'.cmd = Opposite(out.cmd))
       => /\ out'.took
          /\ cursor' = [line |-> out.headers[out.current].line, ch |-> 0]
          /\ out'.unfoldLines =
                UnfoldLines(Headers(lines),
                            CurrentHeaderIndex(Headers(lines), out.headers[out.current].line))]_vars

\* Previous has taken the cursor back from the second of two headers, where
\* only Next can have put it at column 0.
C10_Witness ==
    /\ out.cmd = "previous"
    /\ out.took
    /\ Len(out.headers) = 2
    /\ out.cursor = [line |-> out.headers[2].line, ch |-> 0]
    /\ cursor = [line |-> out.headers[1].line, ch |-> 0]

====
